---------------------------- MODULE Spec2Model ----------------------------
(***************************************************************************)
(* A model of dailymed_client.py: the DailyMedAPI client class (parameter  *)
(* filter, request executor, resource methods) and the command-line        *)
(* dispatcher main().                                                      *)
(*                                                                         *)
(* A run is either the command-line program (entry = "cli": parse the      *)
(* command line, dispatch to a resource method, wait for the HTTP          *)
(* response, render and exit) or a direct call of a resource method of the *)
(* class by importing code (entry = "api").                                *)
(***************************************************************************)
EXTENDS Integers, Sequences, FiniteSets, TLC

VARIABLES entry, argv, call, args, pc, endpoint, params, clean_params,
          gets, request, outcome, result, exc, stdout, stderr, exit_code

vars == <<entry, argv, call, args, pc, endpoint, params, clean_params,
          gets, request, outcome, result, exc, stdout, stderr, exit_code>>

(***************************************************************************)
(* Bounds of the model.                                                    *)
(***************************************************************************)
\* The largest number of optional filter flags (or filter keyword
\* arguments) one invocation carries.
MaxFlags == 2

(***************************************************************************)
(* Python values.  A value is a record [ty, s, n]: ty is the Python type,  *)
(* s the text of a str (or the compact JSON text of a dict or list) and n  *)
(* the number of an int, the 0/1 of a bool, or the length of a dict or     *)
(* list.                                                                   *)
(***************************************************************************)
PyNone == [ty |-> "NoneType", s |-> "", n |-> 0]
PyStr(x) == [ty |-> "str", s |-> x, n |-> 0]
PyInt(i) == [ty |-> "int", s |-> "", n |-> i]
PyBool(b) == [ty |-> "bool", s |-> "", n |-> IF b THEN 1 ELSE 0]
PyDict(text, len) == [ty |-> "dict", s |-> text, n |-> len]
PyList(text, len) == [ty |-> "list", s |-> text, n |-> len]

\* Python truth value testing: None, zero, False and empty containers and
\* strings are false.
Truthy(v) ==
    CASE v.ty = "NoneType" -> FALSE
      [] v.ty = "str" -> v.s # ""
      [] OTHER -> v.n # 0

\* bool(text), the conversion argparse applies for type=bool: a string is
\* true unless it is empty.
PyBoolOfStr(x) == PyBool(x # "")

\* int(text), the conversion argparse applies for type=int, on the texts
\* the model's command lines carry: <<i>> for a number, <<>> for ValueError.
PyIntOfStr(x) ==
    CASE x = "0" -> <<0>>
      [] x = "1" -> <<1>>
      [] x = "2" -> <<2>>
      [] x = "5" -> <<5>>
      [] x = "7" -> <<7>>
      [] x = "10" -> <<10>>
      [] OTHER -> <<>>

(***************************************************************************)
(* Python dicts with string keys: functions from a finite set of strings.  *)
(***************************************************************************)
EmptyDict == [k \in {} |-> PyNone]
DictSet(d, key, value) ==
    [k \in (DOMAIN d) \cup {key} |-> IF k = key THEN value ELSE d[k]]

\* A keyword argument, or the default of the signature when it is omitted.
Kw(kwargs, name, default) ==
    IF name \in DOMAIN kwargs THEN kwargs[name] ELSE default

(***************************************************************************)
(* DailyMedAPI                                                             *)
(***************************************************************************)
BASE_URL == "https://dailymed.nlm.nih.gov/dailymed/services/v2"

\* A faulty variant of add_if_present: tests the value's truth instead of
\* "is not None".
add_if_present_truthy(p, key, value) ==
    IF Truthy(value) THEN DictSet(p, key, value) ELSE p

\* DailyMedAPI._add_if_present: the params dict after the call.
add_if_present(p, key, value) ==
    IF value # PyNone THEN DictSet(p, key, value) ELSE p

\* The run of _add_if_present calls of a resource method, in source order.
RECURSIVE AddFilters(_, _, _)
AddFilters(p, kwargs, keys) ==
    IF keys = <<>> THEN p
    ELSE AddFilters(add_if_present(p, Head(keys), Kw(kwargs, Head(keys), PyNone)),
                    kwargs, Tail(keys))

\* params = {"page": page, "pagesize": pagesize}
PageParams(page, pagesize) ==
    [k \in {"page", "pagesize"} |-> IF k = "page" THEN page ELSE pagesize]


(***************************************************************************)
(* Resource methods.  Each yields the endpoint and the params argument it  *)
(* hands to _make_request (<<d>> for a dict d, <<>> for params=None) and   *)
(* the progress line it prints first.                                      *)
(***************************************************************************)
search_spls_filters ==
    <<"application_number", "boxed_warning", "dea_schedule_code", "doctype",
      "drug_class_code", "drug_class_coding_system", "drug_name", "name_type",
      "labeler", "manufacturer", "marketing_category_code", "ndc",
      "published_date", "published_date_comparison", "rxcui", "setid",
      "unii_code">>
get_drug_names_filters == <<"manufacturer", "name_type">>
get_ndcs_filters ==
    <<"application_number", "labeler", "marketing_category_code", "setid">>
get_drug_classes_filters ==
    <<"drug_class_code", "drug_class_coding_system", "class_code_type",
      "class_name", "unii_code">>
get_uniis_filters ==
    <<"active_moiety", "drug_class_code", "drug_class_coding_system", "rxcui",
      "unii_code">>
get_rxcuis_filters == <<"rxcui", "rxstring", "rxtty">>

\* Defaults of the page and pagesize parameters in the method signatures.
MethodDefaultPage == 1
MethodDefaultPageSize == 10

ListCall(path, filters, progress, kwargs) ==
    [endpoint |-> path,
     params |-> <<AddFilters(PageParams(Kw(kwargs, "page", PyInt(MethodDefaultPage)),
                                        Kw(kwargs, "pagesize", PyInt(MethodDefaultPageSize))),
                             kwargs, filters)>>,
     progress |-> progress]

search_spls(kwargs) ==
    ListCall("spls.json", search_spls_filters, "Searching SPLs", kwargs)
get_drug_names(kwargs) ==
    ListCall("drugnames.json", get_drug_names_filters, "Getting drug names", kwargs)
get_ndcs(kwargs) ==
    ListCall("ndcs.json", get_ndcs_filters, "Getting NDCs", kwargs)
get_drug_classes(kwargs) ==
    ListCall("drugclasses.json", get_drug_classes_filters, "Getting drug classes", kwargs)
get_uniis(kwargs) ==
    ListCall("uniis.json", get_uniis_filters, "Getting UNIIs", kwargs)
get_rxcuis(kwargs) ==
    ListCall("rxcuis.json", get_rxcuis_filters, "Getting RxCUIs", kwargs)

get_spl_by_setid(kwargs) ==
    [endpoint |-> "spls/" \o kwargs["set_id"].s \o ".xml",
     params |-> <<>>, progress |-> "Getting SPL for SET ID"]
get_spl_history(kwargs) ==
    [endpoint |-> "spls/" \o kwargs["set_id"].s \o "/history.json",
     params |-> <<>>, progress |-> "Getting SPL history for SET ID"]
\* A faulty variant of get_spl_ndcs: sends the default page and pagesize.
get_spl_ndcs_paged(kwargs) ==
    [endpoint |-> "spls/" \o kwargs["set_id"].s \o "/ndcs.json",
     params |-> <<PageParams(PyInt(MethodDefaultPage), PyInt(MethodDefaultPageSize))>>,
     progress |-> "Getting NDCs for SET ID"]
get_spl_ndcs(kwargs) ==
    [endpoint |-> "spls/" \o kwargs["set_id"].s \o "/ndcs.json",
     params |-> <<>>, progress |-> "Getting NDCs for SET ID"]
get_spl_packaging(kwargs) ==
    [endpoint |-> "spls/" \o kwargs["set_id"].s \o "/packaging.json",
     params |-> <<>>, progress |-> "Getting packaging info for SET ID"]

ListMethods == {"search_spls", "get_drug_names", "get_ndcs", "get_drug_classes",
                "get_uniis", "get_rxcuis"}
IdMethods == {"get_spl_by_setid", "get_spl_history", "get_spl_ndcs",
              "get_spl_packaging"}

\* api.<method>(**kwargs)
Method(method, kwargs) ==
    CASE method = "search_spls" -> search_spls(kwargs)
      [] method = "get_spl_by_setid" -> get_spl_by_setid(kwargs)
      [] method = "get_spl_history" -> get_spl_history(kwargs)
      [] method = "get_spl_ndcs" -> get_spl_ndcs(kwargs)
      [] method = "get_spl_packaging" -> get_spl_packaging(kwargs)
      [] method = "get_drug_names" -> get_drug_names(kwargs)
      [] method = "get_ndcs" -> get_ndcs(kwargs)
      [] method = "get_drug_classes" -> get_drug_classes(kwargs)
      [] method = "get_uniis" -> get_uniis(kwargs)
      [] method = "get_rxcuis" -> get_rxcuis(kwargs)

MethodFilters(method) ==
    CASE method = "search_spls" -> search_spls_filters
      [] method = "get_drug_names" -> get_drug_names_filters
      [] method = "get_ndcs" -> get_ndcs_filters
      [] method = "get_drug_classes" -> get_drug_classes_filters
      [] method = "get_uniis" -> get_uniis_filters
      [] method = "get_rxcuis" -> get_rxcuis_filters
      [] OTHER -> <<>>

(***************************************************************************)
(* _make_request, up to the GET.                                           *)
(***************************************************************************)
\* A faulty variant of CleanParams: keeps the entries whose value is true.
CleanParamsTruthy(p) ==
    IF p # <<>> /\ DOMAIN p[1] # {}
    THEN [k \in {x \in DOMAIN p[1] : Truthy(p[1][x])} |-> p[1][k]]
    ELSE EmptyDict

\* clean_params: the entries of params whose value is not None; empty when
\* params is None or empty.
CleanParams(p) ==
    IF p # <<>> /\ DOMAIN p[1] # {}
    THEN [k \in {x \in DOMAIN p[1] : p[1][x] # PyNone} |-> p[1][k]]
    ELSE EmptyDict

\* url = f"{self.BASE_URL}/{endpoint}"
Url(e) == BASE_URL \o "/" \o e

\* The timeout handed to requests.get, in seconds.
Timeout == 10

\* requests.get(url, params=clean_params, timeout=10)
GetRequest(e, p) ==
    [method |-> "GET", url |-> Url(e), query |-> CleanParams(p), timeout |-> Timeout]

\* str.endswith
EndsWith(text, suffix) ==
    /\ Len(text) >= Len(suffix)
    /\ SubSeq(text, Len(text) - Len(suffix) + 1, Len(text)) = suffix


(***************************************************************************)
(* Exceptions: a name and the classes the exception is an instance of,     *)
(* which is what an except clause tests.                                   *)
(***************************************************************************)
NoExc == [name |-> "", classes |-> {}]
Raised(e) == e # NoExc

HTTPError ==
    [name |-> "HTTPError",
     classes |-> {"HTTPError", "RequestException", "Exception"}]
ConnectionError ==
    [name |-> "ConnectionError",
     classes |-> {"ConnectionError", "RequestException", "Exception"}]
ConnectTimeout ==
    [name |-> "ConnectTimeout",
     classes |-> {"ConnectTimeout", "ConnectionError", "Timeout",
                  "RequestException", "Exception"}]
ReadTimeout ==
    [name |-> "ReadTimeout",
     classes |-> {"ReadTimeout", "Timeout", "RequestException", "Exception"}]
\* An error that is no requests exception and no JSON decode error.
UnexpectedError ==
    [name |-> "UnexpectedError", classes |-> {"Exception"}]
\* What response.json() raises on a malformed body: the json module's
\* JSONDecodeError, or (requests 2.27 and later) requests' own, which is
\* both a RequestException and a json.JSONDecodeError.
JsonJSONDecodeError ==
    [name |-> "json.JSONDecodeError",
     classes |-> {"JSONDecodeError", "ValueError", "Exception"}]
RequestsJSONDecodeError ==
    [name |-> "requests.JSONDecodeError",
     classes |-> {"InvalidJSONError", "RequestException", "JSONDecodeError",
                  "ValueError", "Exception"}]
JSONDecodeErrors == {JsonJSONDecodeError, RequestsJSONDecodeError}

\* The errors requests.get raises without a response.
TransportErrors == {ConnectionError, ConnectTimeout, ReadTimeout,
                    UnexpectedError}

(***************************************************************************)
(* Responses.                                                              *)
(***************************************************************************)
Statuses == {200, 304, 404, 503}
Bodies == {"", "{}", "\"s\"", "{\"a\": 1}", "<a/>"}

\* What requests.get comes back with: a response, or an error raised.
Outcomes ==
    {[kind |-> "response", status |-> st, body |-> b, error |-> NoExc] :
        st \in Statuses, b \in Bodies}
    \cup {[kind |-> "raise", status |-> 0, body |-> "", error |-> e] :
            e \in TransportErrors}
NoOutcome == [kind |-> "", status |-> 0, body |-> "", error |-> NoExc]

\* A faulty variant of RaisesForStatus: raises on 5xx only.
RaisesForStatus5xx(status) == 500 <= status /\ status < 600

\* response.raise_for_status() raises HTTPError: "bad status codes (4xx or
\* 5xx)".
RaisesForStatus(status) == 400 <= status /\ status < 600

\* response.text: the body decoded to text (the model's bodies are ASCII,
\* which every guessed encoding decodes to the same characters).
ResponseText(body) == PyStr(body)

\* {"message": "Request successful, but no content returned."}
NoContent ==
    PyDict("{\"message\": \"Request successful, but no content returned.\"}", 1)

\* response.json() on the model's bodies: <<v>> for the value decoded, <<>>
\* for a body that is no JSON document.
ResponseJson(body) ==
    CASE body = "{}" -> <<PyDict("{}", 0)>>
      [] body = "[]" -> <<PyList("[]", 0)>>
      [] body = "0" -> <<PyInt(0)>>
      [] body = "null" -> <<PyNone>>
      [] body = "false" -> <<PyBool(FALSE)>>
      [] body = "\"\"" -> <<PyStr("")>>
      [] body = "\"s\"" -> <<PyStr("s")>>
      [] body = "{\"a\": 1}" -> <<PyDict("{\"a\": 1}", 1)>>
      [] body = "[1]" -> <<PyList("[1]", 1)>>
      [] OTHER -> <<>>

\* The except clauses of _make_request, in order: the class caught and the
\* lines written to stderr before the exception is raised again.
MakeRequestHandlers ==
    << [class |-> "HTTPError", lines |-> <<"HTTP error occurred">>],
       [class |-> "ConnectionError", lines |-> <<"Connection error occurred">>],
       [class |-> "Timeout", lines |-> <<"Timeout error occurred">>],
       [class |-> "RequestException", lines |-> <<"An unexpected error occurred">>],
       [class |-> "JSONDecodeError",
        lines |-> <<"Failed to decode JSON response", "Response text">>] >>

\* The lines the first except clause that matches e writes; none when no
\* clause matches and e propagates untouched.
RECURSIVE HandlerLines(_, _)
HandlerLines(e, handlers) ==
    IF handlers = <<>> THEN <<>>
    ELSE IF Head(handlers).class \in e.classes THEN Head(handlers).lines
    ELSE HandlerLines(e, Tail(handlers))

Failure(e) ==
    [result |-> PyNone, exc |-> e, lines |-> HandlerLines(e, MakeRequestHandlers)]
Success(v) == [result |-> v, exc |-> NoExc, lines |-> <<>>]

\* A faulty variant of MakeRequestBody: the empty body is handed to the JSON
\* decoder.
MakeRequestBodyNoEmptyCheck(e, o, jsonerr) ==
    IF EndsWith(e, ".xml") THEN Success(ResponseText(o.body))
    ELSE IF ResponseJson(o.body) = <<>> THEN Failure(jsonerr)
    ELSE Success(ResponseJson(o.body)[1])

\* A faulty variant of MakeRequestBody: the suffix is tested after the body.
MakeRequestBodyXmlLast(e, o, jsonerr) ==
    IF o.body = "" THEN Success(NoContent)
    ELSE IF EndsWith(e, ".xml") THEN Success(ResponseText(o.body))
    ELSE IF ResponseJson(o.body) = <<>> THEN Failure(jsonerr)
    ELSE Success(ResponseJson(o.body)[1])

\* _make_request after raise_for_status: the XML text, the "no content"
\* value or the decoded JSON.
MakeRequestBody(e, o, jsonerr) ==
    IF EndsWith(e, ".xml") THEN Success(ResponseText(o.body))
    ELSE IF o.body = "" THEN Success(NoContent)
    ELSE IF ResponseJson(o.body) = <<>> THEN Failure(jsonerr)
    ELSE Success(ResponseJson(o.body)[1])

\* _make_request from the return of requests.get on: the value returned or
\* the exception raised, and the lines written to stderr.
MakeRequestResult(e, o, jsonerr) ==
    IF o.kind = "raise" THEN Failure(o.error)
    ELSE IF RaisesForStatus(o.status) THEN Failure(HTTPError)
    ELSE MakeRequestBody(e, o, jsonerr)


(***************************************************************************)
(* main(): the parsers.                                                    *)
(***************************************************************************)
ListCommands == {"search-spls", "get-drugnames", "get-ndcs", "get-drugclasses",
                 "get-uniis", "get-rxcuis"}
IdCommands == {"get-spl", "get-spl-history", "get-spl-ndcs", "get-spl-packaging"}
Commands == ListCommands \cup IdCommands

\* The --page and --pagesize defaults of the subcommand parsers.
CliDefaultPage == 1
SearchSplsCliDefaultPageSize == 5
ListCliDefaultPageSize == 10
CliDefaultPageSize(command) ==
    IF command = "search-spls" THEN SearchSplsCliDefaultPageSize
    ELSE ListCliDefaultPageSize

\* The optional filter flags each subcommand parser declares (without the
\* leading "--").
ParserFlags(command) ==
    CASE command = "search-spls" ->
            {"application_number", "boxed_warning", "dea_schedule_code",
             "doctype", "drug_class_code", "drug_class_coding_system",
             "drug_name", "name_type", "labeler", "manufacturer",
             "marketing_category_code", "ndc", "published_date",
             "published_date_comparison", "rxcui", "setid", "unii_code"}
      [] command = "get-drugnames" -> {"manufacturer", "name_type"}
      [] command = "get-ndcs" ->
            {"application_number", "labeler", "marketing_category_code", "setid"}
      [] command = "get-drugclasses" ->
            {"drug_class_code", "drug_class_coding_system", "class_code_type",
             "class_name", "unii_code"}
      [] command = "get-uniis" ->
            {"active_moiety", "drug_class_code", "drug_class_coding_system",
             "rxcui", "unii_code"}
      [] command = "get-rxcuis" -> {"rxcui", "rxstring", "rxtty"}
      [] OTHER -> {}

\* The conversion (type=) of a flag's text: bool for --boxed_warning, str
\* for the other filters.
FlagValue(flag, text) ==
    IF flag = "boxed_warning" THEN PyBoolOfStr(text) ELSE PyStr(text)

\* The exit status of parser.error().
ArgparseErrorStatus == 2

\* parser.parse_args() on a command line [command, set_id, page, pagesize,
\* flags]: the command word ("" when none is given), the positional set_id
\* and the --page and --pagesize texts (<<>> when not given) and the texts
\* of the filter flags given.  ok is FALSE when argparse rejects the line;
\* ns is the namespace: every declared flag, None when it was not given.
ParseArgs(a) ==
    IF a.command \notin Commands
    THEN [ok |-> FALSE, command |-> "", ns |-> EmptyDict]
    ELSE IF a.command \in IdCommands
    THEN IF a.set_id = <<>>
         THEN [ok |-> FALSE, command |-> "", ns |-> EmptyDict]
         ELSE [ok |-> TRUE, command |-> a.command,
               ns |-> [k \in {"set_id"} |-> PyStr(a.set_id[1])]]
    ELSE IF \/ (a.page # <<>> /\ PyIntOfStr(a.page[1]) = <<>>)
            \/ (a.pagesize # <<>> /\ PyIntOfStr(a.pagesize[1]) = <<>>)
    THEN [ok |-> FALSE, command |-> "", ns |-> EmptyDict]
    ELSE [ok |-> TRUE, command |-> a.command,
          ns |-> [k \in {"page", "pagesize"} \cup ParserFlags(a.command) |->
                    CASE k = "page" ->
                            IF a.page = <<>> THEN PyInt(CliDefaultPage)
                            ELSE PyInt(PyIntOfStr(a.page[1])[1])
                      [] k = "pagesize" ->
                            IF a.pagesize = <<>>
                            THEN PyInt(CliDefaultPageSize(a.command))
                            ELSE PyInt(PyIntOfStr(a.pagesize[1])[1])
                      [] OTHER ->
                            IF k \in DOMAIN a.flags THEN FlagValue(k, a.flags[k])
                            ELSE PyNone]]

(***************************************************************************)
(* main(): the dispatch.                                                   *)
(***************************************************************************)
NoCall == [method |-> "", kwargs |-> EmptyDict]

\* name=args.name for each of the names.
Pass(ns, names) == [k \in names |-> ns[k]]

\* The if/elif chain of main: the method called and the keyword arguments
\* it is given.
MainCall(a) ==
    CASE a.command = "search-spls" ->
            [method |-> "search_spls",
             kwargs |-> Pass(a.ns,
                {"page", "pagesize", "application_number", "boxed_warning",
                 "dea_schedule_code", "doctype", "drug_class_code",
                 "drug_class_coding_system", "drug_name", "name_type",
                 "labeler", "manufacturer", "marketing_category_code", "ndc",
                 "published_date", "published_date_comparison", "rxcui",
                 "setid", "unii_code"})]
      [] a.command = "get-spl" ->
            [method |-> "get_spl_by_setid", kwargs |-> Pass(a.ns, {"set_id"})]
      [] a.command = "get-spl-history" ->
            [method |-> "get_spl_history", kwargs |-> Pass(a.ns, {"set_id"})]
      [] a.command = "get-spl-ndcs" ->
            [method |-> "get_spl_ndcs", kwargs |-> Pass(a.ns, {"set_id"})]
      [] a.command = "get-spl-packaging" ->
            [method |-> "get_spl_packaging", kwargs |-> Pass(a.ns, {"set_id"})]
      [] a.command = "get-drugnames" ->
            [method |-> "get_drug_names",
             kwargs |-> Pass(a.ns, {"page", "pagesize", "manufacturer", "name_type"})]
      [] a.command = "get-ndcs" ->
            [method |-> "get_ndcs",
             kwargs |-> Pass(a.ns,
                {"page", "pagesize", "application_number", "labeler",
                 "marketing_category_code", "setid"})]
      [] a.command = "get-drugclasses" ->
            [method |-> "get_drug_classes",
             kwargs |-> Pass(a.ns,
                {"page", "pagesize", "drug_class_code",
                 "drug_class_coding_system", "class_code_type", "class_name",
                 "unii_code"})]
      [] a.command = "get-uniis" ->
            [method |-> "get_uniis",
             kwargs |-> Pass(a.ns,
                {"page", "pagesize", "active_moiety", "drug_class_code",
                 "drug_class_coding_system", "rxcui", "unii_code"})]
      [] a.command = "get-rxcuis" ->
            [method |-> "get_rxcuis",
             kwargs |-> Pass(a.ns, {"page", "pagesize", "rxcui", "rxstring", "rxtty"})]
      [] OTHER -> NoCall

(***************************************************************************)
(* main(): rendering and the exit status.                                  *)
(***************************************************************************)
\* json.dumps(data, indent=2) on the values the model's responses decode
\* to.
JsonDumpsIndent2(v) ==
    CASE v.ty = "NoneType" -> "null"
      [] v.ty = "bool" -> IF v.n = 1 THEN "true" ELSE "false"
      [] v.ty = "int" /\ v.n = 0 -> "0"
      [] v.ty = "str" -> "\"" \o v.s \o "\""
      [] v = PyDict("{\"a\": 1}", 1) -> "{\n  \"a\": 1\n}"
      [] v = PyList("[1]", 1) -> "[\n  1\n]"
      [] v = NoContent ->
            "{\n  \"message\": \"Request successful, but no content returned.\"\n}"
      [] OTHER -> v.s

\* "if result:" and what it prints to stdout.
RenderLines(command, r) ==
    IF Truthy(r)
    THEN IF command = "get-spl"
         THEN <<"API Response (XML):", r.s>>
         ELSE <<"API Response:", JsonDumpsIndent2(r)>>
    ELSE <<>>

\* The except clauses of main, in order; each ends in sys.exit(1).
MainHandlers ==
    << [classes |-> {"RequestException", "JSONDecodeError"},
        lines |-> <<"An error occurred during the API request",
                    "Please check your connection and the API endpoint status.">>,
        status |-> 1],
       [classes |-> {"Exception"},
        lines |-> <<"An unexpected error occurred">>,
        status |-> 1] >>

\* A faulty variant of MainExit: the generic clause swallows the error.
MainExitSwallow(e) ==
    IF ~Raised(e) THEN [status |-> 0, lines |-> <<>>]
    ELSE IF MainHandlers[1].classes \cap e.classes # {}
    THEN [status |-> MainHandlers[1].status, lines |-> MainHandlers[1].lines]
    ELSE [status |-> 0, lines |-> MainHandlers[2].lines]

\* How main ends: status 0 when the try block completes, else the first
\* except clause that matches.
MainExit(e) ==
    IF ~Raised(e) THEN [status |-> 0, lines |-> <<>>]
    ELSE IF MainHandlers[1].classes \cap e.classes # {}
    THEN [status |-> MainHandlers[1].status, lines |-> MainHandlers[1].lines]
    ELSE [status |-> MainHandlers[2].status, lines |-> MainHandlers[2].lines]


(***************************************************************************)
(* The inputs of a run.                                                    *)
(***************************************************************************)
\* The subsets of S of at most k elements.
RECURSIVE SubsetsUpTo(_, _)
SubsetsUpTo(S, k) ==
    IF k = 0 THEN {{}}
    ELSE LET smaller == SubsetsUpTo(S, k - 1)
         IN  smaller \cup {T \cup {x} : T \in smaller, x \in S}

SetIds == {"abc", "x.xml"}
PageTexts == {<<>>, <<"0">>, <<"x">>}
PageSizeTexts == {<<>>, <<"7">>}
\* The flags the model also gives an empty text.
EmptyTextFlags == {"drug_name", "manufacturer", "rxcui", "setid", "unii_code"}
FlagTexts(flag) ==
    IF flag = "boxed_warning" THEN {"True", "False", ""}
    ELSE IF flag \in EmptyTextFlags THEN {"aspirin", ""}
    ELSE {"aspirin"}
AllFlagTexts == {"True", "False", "aspirin", ""}

\* The filter flags of a command line: at most MaxFlags of the flags the
\* subcommand declares, each with a text.
FlagChoices(command) ==
    UNION {{f \in [S -> AllFlagTexts] : \A k \in S : f[k] \in FlagTexts(k)} :
             S \in SubsetsUpTo(ParserFlags(command), MaxFlags)}

NoFlags == [k \in {} |-> ""]
NoArgv == [command |-> "", set_id |-> <<>>, page |-> <<>>, pagesize |-> <<>>,
           flags |-> NoFlags]

\* The command lines: no subcommand; an identifier subcommand with or
\* without its set_id; a list subcommand with its flags.
Argvs ==
    {NoArgv}
    \cup {[command |-> c, set_id |-> sid, page |-> <<>>, pagesize |-> <<>>,
           flags |-> NoFlags] :
            c \in IdCommands, sid \in {<<>>} \cup {<<i>> : i \in SetIds}}
    \cup UNION {{[command |-> c, set_id |-> <<>>, page |-> p, pagesize |-> ps,
                  flags |-> f] :
                    p \in PageTexts, ps \in PageSizeTexts, f \in FlagChoices(c)} :
                 c \in ListCommands}

\* The values importing code passes for a filter, page and pagesize.
KwValues(name) ==
    CASE name = "boxed_warning" -> {PyNone, PyBool(FALSE), PyBool(TRUE)}
      [] name = "page" -> {PyInt(0)}
      [] name = "pagesize" -> {PyInt(7)}
      [] name \in EmptyTextFlags -> {PyNone, PyStr("aspirin")}
      [] OTHER -> {PyStr("aspirin")}
AllKwValues ==
    {PyNone, PyBool(FALSE), PyBool(TRUE), PyStr("aspirin"), PyInt(0), PyInt(7)}

Range(seq) == {seq[i] : i \in DOMAIN seq}

\* The keyword arguments of a direct call of a list method: page and
\* pagesize given or left out, and at most MaxFlags filters.
KwargsChoices(method) ==
    UNION {{f \in [S \cup P -> AllKwValues] : \A k \in S \cup P : f[k] \in KwValues(k)} :
             S \in SubsetsUpTo(Range(MethodFilters(method)), MaxFlags),
             P \in SUBSET {"page", "pagesize"}}

\* The direct calls of the resource methods.
Calls ==
    {[method |-> m, kwargs |-> [k \in {"set_id"} |-> PyStr(i)]] :
        m \in IdMethods, i \in SetIds}
    \cup UNION {{[method |-> m, kwargs |-> kw] : kw \in KwargsChoices(m)} :
                 m \in ListMethods}

(***************************************************************************)
(* The state machine.                                                      *)
(***************************************************************************)
NoArgs == [command |-> "", ns |-> EmptyDict]
NoRequest == [method |-> "", url |-> "", query |-> EmptyDict, timeout |-> 0]

Idle ==
    /\ args = NoArgs
    /\ endpoint = ""
    /\ params = <<>>
    /\ clean_params = EmptyDict
    /\ gets = 0
    /\ request = NoRequest
    /\ outcome = NoOutcome
    /\ result = PyNone
    /\ exc = NoExc
    /\ stdout = <<>>
    /\ stderr = <<>>
    /\ exit_code = <<>>

Init ==
    /\ \/ entry = "cli" /\ argv \in Argvs /\ call = NoCall /\ pc = "parse"
       \/ entry = "api" /\ argv = NoArgv /\ call \in Calls /\ pc = "call"
    /\ Idle

\* The resource method c.method runs to the GET of _make_request.
Invoke(c) ==
    LET m == Method(c.method, c.kwargs)
    IN  /\ endpoint' = m.endpoint
        /\ params' = m.params
        /\ clean_params' = CleanParams(m.params)
        /\ request' = GetRequest(m.endpoint, m.params)
        /\ gets' = gets + 1
        /\ stdout' = Append(stdout, m.progress)
        /\ pc' = "waiting"

\* main: parser.parse_args().
Parse ==
    /\ pc = "parse"
    /\ LET parsed == ParseArgs(argv)
       IN  IF parsed.ok
           THEN /\ args' = [command |-> parsed.command, ns |-> parsed.ns]
                /\ pc' = "dispatch"
                /\ UNCHANGED <<stderr, exit_code>>
           ELSE /\ stderr' = Append(stderr, "usage")
                /\ exit_code' = <<ArgparseErrorStatus>>
                /\ pc' = "exited"
                /\ UNCHANGED args
    /\ UNCHANGED <<entry, argv, call, endpoint, params, clean_params, gets,
                   request, outcome, result, exc, stdout>>

\* main: the if/elif chain calls the resource method.
Dispatch ==
    /\ pc = "dispatch"
    /\ call' = MainCall(args)
    /\ Invoke(MainCall(args))
    /\ UNCHANGED <<entry, argv, args, outcome, result, exc, stderr, exit_code>>

\* Importing code calls a resource method.
ApiCall ==
    /\ pc = "call"
    /\ Invoke(call)
    /\ UNCHANGED <<entry, argv, call, args, outcome, result, exc, stderr,
                   exit_code>>

\* requests.get returns or raises, and _make_request runs to its end.
Respond ==
    /\ pc = "waiting"
    /\ \E o \in Outcomes, jsonerr \in JSONDecodeErrors :
         LET r == MakeRequestResult(endpoint, o, jsonerr)
         IN  /\ outcome' = o
             /\ result' = r.result
             /\ exc' = r.exc
             /\ stderr' = stderr \o r.lines
    /\ pc' = IF entry = "cli" THEN "render" ELSE "returned"
    /\ UNCHANGED <<entry, argv, call, args, endpoint, params, clean_params,
                   gets, request, stdout, exit_code>>

\* main: the result is printed, or the exception is reported, and the
\* process exits.
Render ==
    /\ pc = "render"
    /\ stdout' = IF Raised(exc) THEN stdout
                 ELSE stdout \o RenderLines(args.command, result)
    /\ stderr' = stderr \o MainExit(exc).lines
    /\ exit_code' = <<MainExit(exc).status>>
    /\ pc' = "exited"
    /\ UNCHANGED <<entry, argv, call, args, endpoint, params, clean_params,
                   gets, request, outcome, result, exc>>

Next == Parse \/ Dispatch \/ ApiCall \/ Respond \/ Render

Spec == Init /\ [][Next]_vars


(***************************************************************************)
(* The parameter filter on its own: _add_if_present over the entries of a  *)
(* mapping, and the cleaning loop of _make_request on a params dict, for   *)
(* every mapping of up to three fields to None, 0, False, "" or a text.    *)
(***************************************************************************)
FilterKeys == <<"page", "boxed_warning", "drug_name">>
FilterValues == {PyNone, PyInt(0), PyBool(FALSE), PyStr(""), PyStr("aspirin")}
FilterInputs == UNION {[S -> FilterValues] : S \in SUBSET Range(FilterKeys)}

FilterInit ==
    /\ entry = "filter"
    /\ argv = NoArgv
    /\ \E m \in FilterInputs :
         \/ call = [method |-> "_add_if_present", kwargs |-> m] /\ params = <<>>
         \/ call = [method |-> "_make_request", kwargs |-> m] /\ params = <<m>>
    /\ pc = "filter"
    /\ args = NoArgs
    /\ endpoint = ""
    /\ clean_params = EmptyDict
    /\ gets = 0
    /\ request = NoRequest
    /\ outcome = NoOutcome
    /\ result = PyNone
    /\ exc = NoExc
    /\ stdout = <<>>
    /\ stderr = <<>>
    /\ exit_code = <<>>

\* _add_if_present for each entry of the mapping, into an empty dict.
FilterAdd ==
    /\ pc = "filter"
    /\ call.method = "_add_if_present"
    /\ params' = <<AddFilters(EmptyDict, call.kwargs, FilterKeys)>>
    /\ pc' = "filtered"
    /\ UNCHANGED <<entry, argv, call, args, endpoint, clean_params, gets,
                   request, outcome, result, exc, stdout, stderr, exit_code>>

\* The cleaning loop of _make_request.
FilterClean ==
    /\ pc = "filter"
    /\ call.method = "_make_request"
    /\ clean_params' = CleanParams(params)
    /\ pc' = "filtered"
    /\ UNCHANGED <<entry, argv, call, args, endpoint, params, gets, request,
                   outcome, result, exc, stdout, stderr, exit_code>>

FilterNext == FilterAdd \/ FilterClean

FilterSpec == FilterInit /\ [][FilterNext]_vars


(***************************************************************************)
(* Properties.                                                             *)
(***************************************************************************)
\* The GET has been issued.
Sent == gets > 0
\* _make_request has returned or raised.
Responded == pc \in {"render", "returned", "exited"} /\ Sent
CliList == entry = "cli" /\ Sent /\ argv.command \in ListCommands

\* C1: for every list/search subcommand and every combination of filter
\* flags, the query sent has exactly the keys page, pagesize and the filters
\* whose flags were given, each string filter with the text given; a flag
\* that is omitted is not sent; and search-spls with drug_name=aspirin,
\* page 1 and pagesize 5 sends {drug_name: "aspirin", page: 1, pagesize: 5}.
C1_QueryKeys ==
    CliList =>
        /\ DOMAIN request.query = {"page", "pagesize"} \cup DOMAIN argv.flags
        /\ \A k \in DOMAIN argv.flags :
              k # "boxed_warning" => request.query[k] = PyStr(argv.flags[k])
        /\ \A k \in DOMAIN request.query :
              request.query[k] # PyNone
        /\ ( /\ argv.command = "search-spls"
             /\ DOMAIN argv.flags = {"drug_name"}
             /\ argv.flags["drug_name"] = "aspirin"
             /\ argv.page = <<>>
             /\ argv.pagesize = <<>> )
           => /\ DOMAIN request.query = {"drug_name", "page", "pagesize"}
              /\ request.query["drug_name"] = PyStr("aspirin")
              /\ request.query["page"] = PyInt(1)
              /\ request.query["pagesize"] = PyInt(5)

\* C1 witness: a search-spls request in flight with two filters given.
C1_Witness ==
    /\ CliList
    /\ pc = "waiting"
    /\ argv.command = "search-spls"
    /\ DOMAIN argv.flags = {"drug_name", "ndc"}
    /\ DOMAIN request.query = {"page", "pagesize", "drug_name", "ndc"}

\* The request failed: requests.get raised, the status is an HTTP error
\* status, or a JSON endpoint answered a non-empty body that is no JSON.
RequestFailed ==
    \/ outcome.kind = "raise"
    \/ /\ outcome.kind = "response"
       /\ \/ outcome.status \in 400..599
          \/ /\ ~EndsWith(endpoint, ".xml")
             /\ outcome.body # ""
             /\ ResponseJson(outcome.body) = <<>>

\* C2: once a resource method was called and the process has exited, the
\* exit code is 1 if the request failed (HTTP error status, connection
\* failure, timeout, malformed JSON, any other error) and 0 otherwise; it is
\* 0 exactly when the method returned without raising.
C2_ExitCode ==
    (entry = "cli" /\ pc = "exited" /\ Sent) =>
        /\ exit_code = IF RequestFailed THEN <<1>> ELSE <<0>>
        /\ (exit_code = <<0>>) <=> ~Raised(exc)

\* C2 witness: the process has exited with 1 after a 404.
C2_Witness ==
    /\ entry = "cli"
    /\ pc = "exited"
    /\ outcome.kind = "response"
    /\ outcome.status = 404
    /\ exit_code = <<1>>

\* C3 as stated: every response whose status is outside 2xx makes
\* _make_request fail with HTTPError, without a value returned.
C3_Not2xxFails ==
    (Responded /\ outcome.kind = "response"
        /\ ~(outcome.status >= 200 /\ outcome.status < 300)) =>
        /\ exc = HTTPError
        /\ result = PyNone

\* C3, amended: for every endpoint and every body, a response whose status
\* is 4xx or 5xx makes _make_request fail with HTTPError: no decoded body,
\* no XML text and no "no content" value is returned, whatever the body.
C3_ErrorStatusFails ==
    (Responded /\ outcome.kind = "response"
        /\ outcome.status >= 400 /\ outcome.status <= 599) =>
        /\ exc = HTTPError
        /\ result = PyNone
        /\ "HTTP error occurred" \in Range(stderr)

\* C3 witness: a 404 with a well-formed JSON body on a JSON endpoint has
\* raised HTTPError.
C3_Witness ==
    /\ Responded
    /\ outcome.kind = "response"
    /\ outcome.status = 404
    /\ outcome.body = "{\"a\": 1}"
    /\ ~EndsWith(endpoint, ".xml")
    /\ exc = HTTPError


\* C4: whenever the process exits 0 after a resource method returned, the
\* result has been rendered: the get-spl result verbatim under the XML
\* heading, every other result, whatever its value, as indented JSON under
\* the response heading.
C4_AlwaysRendered ==
    (entry = "cli" /\ pc = "exited" /\ Sent /\ exit_code = <<0>>) =>
        /\ Len(stdout) = 3
        /\ IF args.command = "get-spl"
           THEN stdout[2] = "API Response (XML):" /\ stdout[3] = outcome.body
           ELSE stdout[2] = "API Response:"
                /\ stdout[3] = JsonDumpsIndent2(result)

\* The method left page (pagesize) to its default: the flag was not given
\* on the command line, or the keyword was not passed in a direct call.
PageOmitted ==
    IF entry = "cli" THEN argv.page = <<>> ELSE "page" \notin DOMAIN call.kwargs
PageSizeOmitted ==
    IF entry = "cli" THEN argv.pagesize = <<>>
    ELSE "pagesize" \notin DOMAIN call.kwargs

\* C5: with page and pagesize not supplied, every list/search method and
\* subcommand sends page=1, and pagesize=5 for search labels and
\* pagesize=10 for the other list operations.
C5_Defaults ==
    (Sent /\ call.method \in ListMethods) =>
        /\ PageOmitted =>
              ("page" \in DOMAIN request.query /\ request.query["page"] = PyInt(1))
        /\ PageSizeOmitted =>
              /\ "pagesize" \in DOMAIN request.query
              /\ request.query["pagesize"] =
                    IF call.method = "search_spls" THEN PyInt(5) ELSE PyInt(10)

\* The value the caller supplied for page or pagesize (<<>> when left to
\* the default).
Supplied(name) ==
    IF entry = "cli"
    THEN IF argv[name] = <<>> THEN <<>> ELSE <<PyInt(PyIntOfStr(argv[name][1])[1])>>
    ELSE IF name \in DOMAIN call.kwargs THEN <<call.kwargs[name]>> ELSE <<>>

\* C6: for every list/search operation and every input, page and pagesize
\* are both keys of the request sent, each an integer: the value the caller
\* supplied (0 included) when one was supplied.
C6_PagePresent ==
    (Sent /\ call.method \in ListMethods) =>
        \A name \in {"page", "pagesize"} :
            /\ name \in DOMAIN request.query
            /\ request.query[name].ty = "int"
            /\ Supplied(name) # <<>> => request.query[name] = Supplied(name)[1]

\* C6 witness: a list request in flight that carries the page 0 the caller
\* supplied, next to a default pagesize.
C6_Witness ==
    /\ Sent
    /\ pc = "waiting"
    /\ call.method = "get_ndcs"
    /\ Supplied("page") = <<PyInt(0)>>
    /\ Supplied("pagesize") = <<>>
    /\ request.query["page"] = PyInt(0)
    /\ "pagesize" \in DOMAIN request.query

\* The filter's output holds exactly the entries of its input that are not
\* None, each with its value.
ExactlyPresent(input, output) ==
    /\ DOMAIN output \subseteq DOMAIN input
    /\ \A k \in DOMAIN input :
          IF input[k] = PyNone THEN k \notin DOMAIN output
          ELSE k \in DOMAIN output /\ output[k] = input[k]

\* C7: the parameter filter returns exactly the entries of its input whose
\* value is not None: 0, False and "" are kept with their value, None is
\* dropped, and the dict handed to the cleaning loop is left as it was.
C7_FilterExact ==
    pc = "filtered" =>
        IF call.method = "_add_if_present"
        THEN ExactlyPresent(call.kwargs, params[1])
        ELSE ExactlyPresent(call.kwargs, clean_params) /\ params = <<call.kwargs>>

\* C7 witness: a mapping with a None, a 0 and a False has been filtered:
\* the None is gone and the 0 and the False are kept.
C7_Witness ==
    /\ pc = "filtered"
    /\ call.method = "_make_request"
    /\ call.kwargs = [k \in {"page", "boxed_warning", "drug_name"} |->
                        CASE k = "page" -> PyInt(0)
                          [] k = "boxed_warning" -> PyBool(FALSE)
                          [] OTHER -> PyNone]
    /\ DOMAIN clean_params = {"page", "boxed_warning"}


\* The text is prefix, then middle, then suffix.
IsJoin(text, prefix, middle, suffix) ==
    /\ Len(text) = Len(prefix) + Len(middle) + Len(suffix)
    /\ SubSeq(text, 1, Len(prefix)) = prefix
    /\ SubSeq(text, Len(prefix) + 1, Len(prefix) + Len(middle)) = middle
    /\ EndsWith(text, suffix)

\* The path after "spls/{id}" of each identifier-only operation.
IdSuffix(method) ==
    CASE method = "get_spl_by_setid" -> ".xml"
      [] method = "get_spl_history" -> "/history.json"
      [] method = "get_spl_ndcs" -> "/ndcs.json"
      [] method = "get_spl_packaging" -> "/packaging.json"

\* C8: the four identifier-only operations request spls/{id}.xml,
\* spls/{id}/history.json, spls/{id}/ndcs.json and spls/{id}/packaging.json
\* under the base URL with an empty query: for every set_id, no page, no
\* pagesize and no filter is sent.
C8_IdOnlyNoQuery ==
    (Sent /\ call.method \in IdMethods) =>
        /\ request.query = EmptyDict
        /\ IsJoin(endpoint, "spls/", call.kwargs["set_id"].s, IdSuffix(call.method))
        /\ IsJoin(request.url, BASE_URL, "/", endpoint)
        /\ entry = "cli" =>
              /\ call.kwargs["set_id"] = PyStr(argv.set_id[1])
              /\ call.method =
                    CASE argv.command = "get-spl" -> "get_spl_by_setid"
                      [] argv.command = "get-spl-history" -> "get_spl_history"
                      [] argv.command = "get-spl-ndcs" -> "get_spl_ndcs"
                      [] argv.command = "get-spl-packaging" -> "get_spl_packaging"
                      [] OTHER -> ""

\* C8 witness: get-spl-ndcs abc has its request in flight, with no query.
C8_Witness ==
    /\ entry = "cli"
    /\ pc = "waiting"
    /\ argv.command = "get-spl-ndcs"
    /\ argv.set_id = <<"abc">>
    /\ endpoint = "spls/abc/ndcs.json"
    /\ DOMAIN request.query = {}

\* The response is one with a success status (2xx).
SuccessStatus ==
    outcome.kind = "response" /\ outcome.status >= 200 /\ outcome.status < 300

\* C9: for a success-status response on a path that does not end in .xml,
\* an empty body is returned as the "no content" value and raises nothing;
\* a non-empty body is decoded as JSON, and a non-empty malformed body
\* raises the JSON decode error.
C9_EmptyBodyNoContent ==
    (Responded /\ SuccessStatus /\ ~EndsWith(endpoint, ".xml")) =>
        IF outcome.body = ""
        THEN result = NoContent /\ ~Raised(exc)
        ELSE IF ResponseJson(outcome.body) = <<>>
        THEN "JSONDecodeError" \in exc.classes
        ELSE result = ResponseJson(outcome.body)[1] /\ ~Raised(exc)

\* C9 witness: a 200 with an empty body on spls/x.xml/history.json has
\* come back as the "no content" value.
C9_Witness ==
    /\ Responded
    /\ SuccessStatus
    /\ endpoint = "spls/x.xml/history.json"
    /\ outcome.body = ""
    /\ result = NoContent
    /\ ~Raised(exc)

\* C10: the kind of a successful result follows from the path's suffix
\* alone.  On a path ending in .xml every response that passes the status
\* check comes back as its text, unchanged, whatever the body (empty and
\* non-XML included): no JSON value, no "no content" value, no decode
\* error.  On any other path the value returned is never the raw text.
C10_KindBySuffix ==
    (Responded /\ outcome.kind = "response") =>
        IF EndsWith(endpoint, ".xml")
        THEN /\ (outcome.status < 400 => result = PyStr(outcome.body) /\ ~Raised(exc))
             /\ result # NoContent
             /\ "JSONDecodeError" \notin exc.classes
             /\ result.ty \in {"str", "NoneType"}
        ELSE ~Raised(exc) => result # PyStr(outcome.body)

\* C10 witness: get-spl has received a 200 with an empty body and returned
\* the empty text.
C10_Witness ==
    /\ Responded
    /\ call.method = "get_spl_by_setid"
    /\ outcome.kind = "response"
    /\ outcome.status = 200
    /\ outcome.body = ""
    /\ result = PyStr("")
    /\ ~Raised(exc)


\* The command line is one argparse rejects for its shape: no subcommand,
\* or an identifier subcommand without its set_id.
ParsingFails ==
    /\ entry = "cli"
    /\ \/ argv.command \notin Commands
       \/ argv.command \in IdCommands /\ argv.set_id = <<>>

\* The result has been printed to stdout after the progress line.
ResultRendered ==
    /\ Len(stdout) = 3
    /\ stdout[3] = IF args.command = "get-spl" THEN result.s
                   ELSE JsonDumpsIndent2(result)

\* main has reported the error on stderr.
ErrorRendered ==
    \/ "An error occurred during the API request" \in Range(stderr)
    \/ "An unexpected error occurred" \in Range(stderr)

\* C11, the part on the number of requests: at most one GET is issued in a
\* run, none when argument parsing fails, and none after the response or
\* the failure of the first (no retry).
C11_AtMostOneGet ==
    /\ gets <= 1
    /\ ParsingFails => gets = 0
    /\ (pc = "exited" /\ exit_code = <<ArgparseErrorStatus>>) => gets = 0
    /\ Responded => gets = 1

\* C11: at most one GET is issued in a run, none when argument parsing
\* fails, a failed request is not retried, and once the process has exited
\* after its request it has rendered either its result or its error.
C11_OneGetThenRendered ==
    /\ C11_AtMostOneGet
    /\ (entry = "cli" /\ pc = "exited" /\ Sent) =>
          IF Raised(exc) THEN ErrorRendered ELSE ResultRendered

\* The run is scheduled: Python runs main to its end, and requests.get
\* returns or raises within its timeout.
FairSpec == Spec /\ WF_vars(Next)

\* C11, the part on termination: after the request the process always
\* exits.
C11_Terminates == (entry = "cli" /\ Sent) ~> (pc = "exited")

\* C12: for search-spls the boxed_warning sent is the boolean written on
\* the command line: --boxed_warning True sends true, --boxed_warning False
\* sends false, and without the flag no boxed_warning key is sent.
C12_BoxedWarningAsWritten ==
    (CliList /\ argv.command = "search-spls") =>
        IF "boxed_warning" \in DOMAIN argv.flags
        THEN /\ "boxed_warning" \in DOMAIN request.query
             /\ argv.flags["boxed_warning"] = "True" =>
                   request.query["boxed_warning"] = PyBool(TRUE)
             /\ argv.flags["boxed_warning"] = "False" =>
                   request.query["boxed_warning"] = PyBool(FALSE)
        ELSE "boxed_warning" \notin DOMAIN request.query

=============================================================================
